---- MODULE Spec2Model ----
(***************************************************************************)
(* Model of the two stateful decorators of src/utils/common.py:            *)
(*   retry_async  (lines 517-545)  retry with exponential backoff          *)
(*   cache_result (lines 586-616)  in-memory cache with a time to live     *)
(* Three specifications are given:                                         *)
(*   SpecRetry    one call of a retry_async wrapper                        *)
(*   SpecCache    a cache_result wrapper called by a single caller         *)
(*   SpecThreads  a cache_result wrapper called by two threads             *)
(***************************************************************************)
EXTENDS Integers, Sequences, FiniteSets, TLC

VARIABLES
    \* ---- retry_async ----
    max_attempts,     \* decorator argument
    delay,            \* decorator argument
    backoff,          \* decorator argument
    attempt,          \* loop variable of wrapper
    last_exception,   \* local of wrapper
    rpc,              \* position of the wrapper coroutine
    hist,             \* outcomes of the invocations of func, in order
    sleeps,           \* durations passed to asyncio.sleep, in order
    routcome,         \* what the wrapper returned or raised
    \* ---- cache_result ----
    ttl_seconds,      \* decorator argument
    cache,            \* the closure's dict: cache_key -> <<result, timestamp>>
    now,              \* the value time.time() returns
    opcalls,          \* number of invocations of func so far
    ncalls,           \* number of calls of wrapper so far
    last,             \* observation of the most recent call of wrapper
    \* ---- cache_result, two threads ----
    tpc, targs, tresult, ttimestamp, tflags

varsRetry   == <<max_attempts, delay, backoff, attempt, last_exception, rpc,
                 hist, sleeps, routcome>>
varsCache   == <<ttl_seconds, cache, now, opcalls, ncalls, last>>
varsThreads == <<tpc, targs, tresult, ttimestamp, tflags>>
vars        == <<varsRetry, varsCache, varsThreads>>

-----------------------------------------------------------------------------
(* Bounds *)
MaxAttempts == 3
MaxDelay    == 2
MaxBackoff  == 2
MaxExcIds   == 2
MaxTime     == 2
MaxTtl      == 2
MaxCalls    == 3
MaxOpTime   == 1
MaxThreadCalls == 3

-----------------------------------------------------------------------------
(* retry_async *)

None == [kind |-> "None", v |-> 0]

\* What one invocation of func can do: return a value, raise an instance
\* of Exception, or raise an instance of BaseException that is not an
\* Exception (asyncio.CancelledError, KeyboardInterrupt, SystemExit).
\* v is the returned value or the identity of the raised object.
Outcomes == [kind : {"ok", "Exception", "BaseException"}, v : 1..MaxExcIds]

TypeError == [kind |-> "TypeError", v |-> 0]

RECURSIVE Pow(_, _)
Pow(b, e) == IF e = 0 THEN 1 ELSE b * Pow(b, e - 1)

SleepTimeLinear(d, b, i) == d * b * i

\* delay * (backoff ** attempt)
SleepTime(d, b, i) == d * Pow(b, i)

RetryIdle ==
    /\ max_attempts = 0 /\ delay = 0 /\ backoff = 0 /\ attempt = 0
    /\ last_exception = None /\ rpc = "idle" /\ hist = <<>> /\ sleeps = <<>>
    /\ routcome = None

InitRetryVars ==
    /\ max_attempts \in 0..MaxAttempts
    /\ delay \in 0..MaxDelay
    /\ backoff \in 0..MaxBackoff
    /\ attempt = 0
    /\ last_exception = None
    /\ rpc = "start"
    /\ hist = <<>>
    /\ sleeps = <<>>
    /\ routcome = None

\* wrapper is called: last_exception = None, then the first iteration of
\* the for loop awaits func; with an empty range the loop body never runs
\* and line 542 raises None, which Python turns into a TypeError.
EnterLoop ==
    /\ rpc = "start"
    /\ max_attempts >= 1
    /\ rpc' = "await_func"
    /\ UNCHANGED <<max_attempts, delay, backoff, attempt, last_exception,
                   hist, sleeps, routcome>>

EmptyLoop ==
    /\ rpc = "start"
    /\ max_attempts < 1
    /\ rpc' = "raised"
    /\ routcome' = TypeError
    /\ UNCHANGED <<max_attempts, delay, backoff, attempt, last_exception,
                   hist, sleeps>>

CatchesSome(o) == o.kind = "Exception" /\ o.v = 1

\* `except Exception as e`
Catches(o) == o.kind = "Exception"

IsLastAttemptEarly(i, n) == i >= n - 2

\* `if attempt == max_attempts - 1`
IsLastAttempt(i, n) == i = n - 1

CaptureFirst(prev, e) == IF prev = None THEN e ELSE prev

\* `last_exception = e`
Capture(prev, e) == e

\* await func(*args, **kwargs) completes with outcome o (lines 532-538)
FuncCompletes(o) ==
    /\ rpc = "await_func"
    /\ hist' = Append(hist, o)
    /\ IF o.kind = "ok"
         THEN /\ rpc' = "returned"
              /\ routcome' = o
              /\ UNCHANGED last_exception
         ELSE IF Catches(o)
           THEN /\ last_exception' = Capture(last_exception, o)
                /\ IF IsLastAttempt(attempt, max_attempts)
                     THEN /\ rpc' = "raised"
                          /\ routcome' = last_exception'
                     ELSE /\ rpc' = "sleeping"
                          /\ UNCHANGED routcome
           ELSE /\ rpc' = "raised"
                /\ routcome' = o
                /\ UNCHANGED last_exception
    /\ UNCHANGED <<max_attempts, delay, backoff, attempt, sleeps>>

\* `raise last_exception` after the loop (line 542); raising None is a
\* TypeError
RaiseAfterLoop(e) == IF e = None THEN TypeError ELSE e

\* await asyncio.sleep(delay * (backoff ** attempt)) completes and the
\* for loop takes its next value from range(max_attempts), or ends
\* (lines 540, 531, 542)
SleepCompletes ==
    /\ rpc = "sleeping"
    /\ sleeps' = Append(sleeps, SleepTime(delay, backoff, attempt))
    /\ IF attempt + 1 < max_attempts
         THEN /\ attempt' = attempt + 1
              /\ rpc' = "await_func"
              /\ UNCHANGED routcome
         ELSE /\ rpc' = "raised"
              /\ routcome' = RaiseAfterLoop(last_exception)
              /\ UNCHANGED attempt
    /\ UNCHANGED <<max_attempts, delay, backoff, last_exception, hist>>

-----------------------------------------------------------------------------
(* cache_result: arguments and the cache key *)

\* Argument values: int, str, and instances of a class whose __repr__
\* does not show everything that distinguishes two instances.  n is the
\* int value or the object's identity, s the str value or the text the
\* object's __repr__ returns.
IntV(n)    == [type |-> "int", n |-> n, s |-> ""]
StrV(s)    == [type |-> "str", n |-> 0, s |-> s]
ObjV(i, r) == [type |-> "obj", n |-> i, s |-> r]

\* repr(v)
Repr(v) ==
    CASE v.type = "int" -> ToString(v.n)
      [] v.type = "str" -> "'" \o v.s \o "'"
      [] v.type = "obj" -> v.s

RECURSIVE Join(_)
\* ", ".join(parts)
Join(parts) ==
    IF Len(parts) = 0 THEN ""
    ELSE IF Len(parts) = 1 THEN parts[1]
    ELSE parts[1] \o ", " \o Join(Tail(parts))

\* str(args) of a tuple
StrTuple(t) ==
    IF Len(t) = 1 THEN "(" \o Repr(t[1]) \o ",)"
    ELSE "(" \o Join([i \in 1..Len(t) |-> Repr(t[i])]) \o ")"

\* str(items) of a list of (name, value) pairs
StrItems(l) ==
    "[" \o Join([i \in 1..Len(l) |->
                   "('" \o l[i][1] \o "', " \o Repr(l[i][2]) \o ")"]) \o "]"

\* keyword names of the model, in str order
KwNames == <<"a", "b">>
NameOrd(nm) == CHOOSE i \in 1..Len(KwNames) : KwNames[i] = nm

RECURSIVE Insert(_, _)
Insert(p, l) ==
    IF Len(l) = 0 THEN <<p>>
    ELSE IF NameOrd(p[1]) <= NameOrd(l[1][1]) THEN <<p>> \o l
    ELSE <<l[1]>> \o Insert(p, Tail(l))

RECURSIVE Sorted(_)
\* sorted(kwargs.items()); keyword names are unique within one call
Sorted(l) == IF Len(l) = 0 THEN <<>> ELSE Insert(l[1], Sorted(Tail(l)))

\* The calls of the model: positional arguments and keyword arguments in
\* the order the caller wrote them.
Call1 == [args |-> <<IntV(1)>>, kwargs |-> <<>>]
Call2 == [args |-> <<StrV("1")>>, kwargs |-> <<>>]
Call3 == [args |-> <<ObjV(1, "Job()")>>, kwargs |-> <<>>]
Call4 == [args |-> <<ObjV(2, "Job()")>>, kwargs |-> <<>>]
Call5 == [args |-> <<>>, kwargs |-> <<<<"a", IntV(1)>>, <<"b", IntV(2)>>>>]
Call6 == [args |-> <<>>, kwargs |-> <<<<"b", IntV(2)>>, <<"a", IntV(1)>>>>]
ArgsUniverse == {Call1, Call2, Call3, Call4, Call5, Call6}

\* the calls the two threads make
ThreadArgs == {Call3, Call4}

\* str(args) + str(sorted(kwargs.items()))
ArgStr(a) == StrTuple(a.args) \o StrItems(Sorted(a.kwargs))

\* hash() of a str: deterministic within one process; taken here to be
\* free of collisions on the strings of the model.
StrUniverse == {ArgStr(a) : a \in ArgsUniverse}
HashTable ==
    CHOOSE f \in [StrUniverse -> 1..Cardinality(StrUniverse)] :
        \A s, t \in StrUniverse : f[s] = f[t] => s = t
PyHash(s) == HashTable[s]

FuncName == "func"

\* cache_key = f"{func.__name__}:{hash(str(args) + str(sorted(kwargs.items())))}"
CacheKey(a) == FuncName \o ":" \o ToString(PyHash(ArgStr(a)))

\* the keyword arguments as the mapping func receives
KwDict(a) == {a.kwargs[i] : i \in 1..Len(a.kwargs)}

\* two calls pass the same arguments
SameArguments(a, b) == a.args = b.args /\ KwDict(a) = KwDict(b)

-----------------------------------------------------------------------------
(* cache_result: one caller *)

\* func counts its invocations: the n-th invocation, made with arguments
\* a, returns this value
FuncResult(a, n) == [a |-> a, n |-> n]

NoResult == [a |-> Call1, n |-> 0]

FreshSwapped(t, timestamp, ttl) == timestamp - t < ttl

\* `time.time() - timestamp < ttl_seconds`
Fresh(t, timestamp, ttl) == t - timestamp < ttl

\* `cache_key in cache` and the entry is still valid (lines 602-604)
Live(c, k, t, ttl) == k \in DOMAIN c /\ Fresh(t, c[k][2], ttl)

EvictNothing(c, k) == c

\* `del cache[cache_key]`
Evict(c, k) == [x \in DOMAIN c \ {k} |-> c[x]]

StoreIfAbsent(c, k, r, t) ==
    [x \in DOMAIN c \cup {k} |-> IF x \in DOMAIN c THEN c[x] ELSE <<r, t>>]

\* `cache[cache_key] = (result, time.time())`
Store(c, k, r, t) ==
    [x \in DOMAIN c \cup {k} |-> IF x = k THEN <<r, t>> ELSE c[x]]

AfterRaiseStores(c, k) ==
    [x \in DOMAIN c \cup {k} |-> IF x = k THEN <<NoResult, now>> ELSE c[x]]

\* what a failing func leaves in the mapping: nothing is stored
AfterRaise(c, k) == c

NoCall ==
    [args |-> Call1, key |-> "", found |-> FALSE, age |-> 0, hit |-> FALSE,
     invoked |-> FALSE, raised |-> FALSE, value |-> NoResult,
     keyAtInvoke |-> FALSE, again |-> FALSE]

CacheIdle ==
    /\ ttl_seconds = 0 /\ cache = <<>> /\ now = 0 /\ opcalls = 0
    /\ ncalls = 0 /\ last = NoCall

InitCacheVars ==
    /\ ttl_seconds \in 0..MaxTtl
    /\ cache = <<>>
    /\ now = 0
    /\ opcalls = 0
    /\ ncalls = 0
    /\ last = NoCall

\* the call before this one was made with the same arguments and raised
AfterFailure(a) == last.raised /\ SameArguments(last.args, a)

\* time passes between calls
Tick ==
    /\ now < MaxTime
    /\ now' = now + 1
    /\ UNCHANGED <<ttl_seconds, cache, opcalls, ncalls, last>>

CallHitRefresh(a) ==
    LET key == CacheKey(a) IN
    /\ ncalls < MaxCalls
    /\ Live(cache, key, now, ttl_seconds)
    /\ ncalls' = ncalls + 1
    /\ cache' = [cache EXCEPT ![key] = <<cache[key][1], now>>]
    /\ last' = [args |-> a, key |-> key, found |-> TRUE,
                age |-> now - cache[key][2], hit |-> TRUE,
                invoked |-> FALSE, raised |-> FALSE,
                value |-> cache[key][1], keyAtInvoke |-> FALSE,
                again |-> AfterFailure(a)]
    /\ UNCHANGED <<ttl_seconds, now, opcalls>>

\* wrapper(*args, **kwargs) finds a live entry and returns its result
\* (lines 599-605)
CallHit(a) ==
    LET key == CacheKey(a) IN
    /\ ncalls < MaxCalls
    /\ Live(cache, key, now, ttl_seconds)
    /\ ncalls' = ncalls + 1
    /\ last' = [args |-> a, key |-> key, found |-> TRUE,
                age |-> now - cache[key][2], hit |-> TRUE,
                invoked |-> FALSE, raised |-> FALSE,
                value |-> cache[key][1], keyAtInvoke |-> FALSE,
                again |-> AfterFailure(a)]
    /\ UNCHANGED <<ttl_seconds, cache, now, opcalls>>

\* wrapper(*args, **kwargs) finds no live entry: an expired entry is
\* deleted, func is invoked (it runs for dur and returns or raises), and
\* its result is stored with the time read after it returned
\* (lines 599-613)
CallMiss(a, dur, fails) ==
    LET key    == CacheKey(a)
        found  == key \in DOMAIN cache
        cache1 == IF found THEN Evict(cache, key) ELSE cache
        result == FuncResult(a, opcalls + 1)
    IN
    /\ ncalls < MaxCalls
    /\ ~Live(cache, key, now, ttl_seconds)
    /\ now + dur <= MaxTime
    /\ ncalls' = ncalls + 1
    /\ opcalls' = opcalls + 1
    /\ now' = now + dur
    /\ cache' = IF fails THEN AfterRaise(cache1, key)
                ELSE Store(cache1, key, result, now')
    /\ last' = [args |-> a, key |-> key, found |-> found,
                age |-> IF found THEN now - cache[key][2] ELSE 0,
                hit |-> FALSE, invoked |-> TRUE, raised |-> fails,
                value |-> IF fails THEN NoResult ELSE result,
                keyAtInvoke |-> key \in DOMAIN cache1,
                again |-> AfterFailure(a)]
    /\ UNCHANGED ttl_seconds

-----------------------------------------------------------------------------
(* cache_result: two threads; a thread switch can happen between any two *)
(* steps of wrapper                                                      *)

Threads == {1, 2}
Other(t) == 3 - t

\* observations of a thread's current call: its number, whether its
\* lookup found no live entry, the number of the other thread's call that
\* was past its lookup and had not stored when this one invoked func (0:
\* none), the number of this invocation of func, whether its store replaced
\* an entry, whether it ended in a KeyError
NoFlags == [id |-> 0, missed |-> FALSE, racedWith |-> 0, n |-> 0,
            overwrote |-> FALSE, keyerror |-> FALSE]

ThreadsIdle ==
    /\ tpc = <<>> /\ targs = <<>> /\ tresult = <<>> /\ ttimestamp = <<>>
    /\ tflags = <<>>

InitThreadVars ==
    /\ tpc = [t \in Threads |-> "idle"]
    /\ targs = [t \in Threads |-> Call1]
    /\ tresult = [t \in Threads |-> NoResult]
    /\ ttimestamp = [t \in Threads |-> 0]
    /\ tflags = [t \in Threads |-> NoFlags]

TKey(t) == CacheKey(targs[t])

\* thread t calls wrapper with arguments a and computes cache_key (599)
TCall(t, a) ==
    /\ tpc[t] \in {"idle", "done", "raised"}
    /\ ncalls < MaxThreadCalls
    /\ ncalls' = ncalls + 1
    /\ targs' = [targs EXCEPT ![t] = a]
    /\ tresult' = [tresult EXCEPT ![t] = NoResult]
    /\ ttimestamp' = [ttimestamp EXCEPT ![t] = 0]
    /\ tflags' = [tflags EXCEPT ![t] = [NoFlags EXCEPT !.id = ncalls + 1]]
    /\ tpc' = [tpc EXCEPT ![t] = "check"]
    /\ UNCHANGED <<ttl_seconds, cache, now, opcalls, last>>

\* `if cache_key in cache` (602)
TCheck(t) ==
    /\ tpc[t] = "check"
    /\ IF TKey(t) \in DOMAIN cache
         THEN /\ tpc' = [tpc EXCEPT ![t] = "read"]
              /\ UNCHANGED tflags
         ELSE /\ tpc' = [tpc EXCEPT ![t] = "invoke"]
              /\ tflags' = [tflags EXCEPT ![t].missed = TRUE]
    /\ UNCHANGED <<ttl_seconds, cache, now, opcalls, ncalls, last, targs,
                   tresult, ttimestamp>>

\* `result, timestamp = cache[cache_key]` (603); KeyError when another
\* thread deleted the entry since the check
TRead(t) ==
    /\ tpc[t] = "read"
    /\ IF TKey(t) \in DOMAIN cache
         THEN /\ tresult' = [tresult EXCEPT ![t] = cache[TKey(t)][1]]
              /\ ttimestamp' = [ttimestamp EXCEPT ![t] = cache[TKey(t)][2]]
              /\ tpc' = [tpc EXCEPT ![t] = "test"]
              /\ UNCHANGED tflags
         ELSE /\ tpc' = [tpc EXCEPT ![t] = "raised"]
              /\ tflags' = [tflags EXCEPT ![t].keyerror = TRUE]
              /\ UNCHANGED <<tresult, ttimestamp>>
    /\ UNCHANGED <<ttl_seconds, cache, now, opcalls, ncalls, last, targs>>

\* `if time.time() - timestamp < ttl_seconds: return result` (604-605)
TTest(t) ==
    /\ tpc[t] = "test"
    /\ IF Fresh(now, ttimestamp[t], ttl_seconds)
         THEN tpc' = [tpc EXCEPT ![t] = "done"]
         ELSE tpc' = [tpc EXCEPT ![t] = "del"]
    /\ UNCHANGED <<ttl_seconds, cache, now, opcalls, ncalls, last, targs,
                   tresult, ttimestamp, tflags>>

\* `del cache[cache_key]` (607); KeyError when another thread deleted the
\* entry first
TDel(t) ==
    /\ tpc[t] = "del"
    /\ IF TKey(t) \in DOMAIN cache
         THEN /\ cache' = Evict(cache, TKey(t))
              /\ tpc' = [tpc EXCEPT ![t] = "invoke"]
              /\ tflags' = [tflags EXCEPT ![t].missed = TRUE]
         ELSE /\ tpc' = [tpc EXCEPT ![t] = "raised"]
              /\ tflags' = [tflags EXCEPT ![t].keyerror = TRUE]
              /\ UNCHANGED cache
    /\ UNCHANGED <<ttl_seconds, now, opcalls, ncalls, last, targs, tresult,
                   ttimestamp>>

\* the other thread is past its lookup for the same key and has not
\* stored yet
InFlight(u, k) == tpc[u] \in {"invoke", "store"} /\ TKey(u) = k

\* `result = func(*args, **kwargs)` (610)
TInvoke(t, fails) ==
    /\ tpc[t] = "invoke"
    /\ opcalls' = opcalls + 1
    /\ IF fails
         THEN /\ tpc' = [tpc EXCEPT ![t] = "raised"]
              /\ UNCHANGED <<tresult, tflags>>
         ELSE /\ tpc' = [tpc EXCEPT ![t] = "store"]
              /\ tresult' = [tresult EXCEPT
                               ![t] = FuncResult(targs[t], opcalls + 1)]
              /\ tflags' = [tflags EXCEPT
                              ![t].n = opcalls + 1,
                              ![t].racedWith =
                                  IF InFlight(Other(t), TKey(t))
                                    THEN tflags[Other(t)].id ELSE 0]
    /\ UNCHANGED <<ttl_seconds, cache, now, ncalls, last, targs, ttimestamp>>

\* `cache[cache_key] = (result, time.time())` and `return result` (611-613)
TStore(t) ==
    /\ tpc[t] = "store"
    /\ cache' = Store(cache, TKey(t), tresult[t], now)
    /\ tflags' = [tflags EXCEPT ![t].overwrote = TKey(t) \in DOMAIN cache]
    /\ tpc' = [tpc EXCEPT ![t] = "done"]
    /\ UNCHANGED <<ttl_seconds, now, opcalls, ncalls, last, targs, tresult,
                   ttimestamp>>

-----------------------------------------------------------------------------
(* Specifications *)

InitRetry == InitRetryVars /\ CacheIdle /\ ThreadsIdle

NextRetry ==
    \/ EnterLoop /\ UNCHANGED <<varsCache, varsThreads>>
    \/ EmptyLoop /\ UNCHANGED <<varsCache, varsThreads>>
    \/ \E o \in Outcomes : FuncCompletes(o) /\ UNCHANGED <<varsCache, varsThreads>>
    \/ SleepCompletes /\ UNCHANGED <<varsCache, varsThreads>>

SpecRetry == InitRetry /\ [][NextRetry]_vars

InitCache == InitCacheVars /\ RetryIdle /\ ThreadsIdle

NextCache ==
    \/ Tick /\ UNCHANGED <<varsRetry, varsThreads>>
    \/ \E a \in ArgsUniverse : CallHit(a) /\ UNCHANGED <<varsRetry, varsThreads>>
    \/ \E a \in ArgsUniverse, dur \in 0..MaxOpTime, fails \in BOOLEAN :
          CallMiss(a, dur, fails) /\ UNCHANGED <<varsRetry, varsThreads>>

SpecCache == InitCache /\ [][NextCache]_vars

InitThreads == InitCacheVars /\ InitThreadVars /\ RetryIdle

NextThreads ==
    \/ Tick /\ UNCHANGED <<varsRetry, varsThreads>>
    \/ \E t \in Threads, a \in ThreadArgs : TCall(t, a) /\ UNCHANGED varsRetry
    \/ \E t \in Threads : TCheck(t) /\ UNCHANGED varsRetry
    \/ \E t \in Threads : TRead(t) /\ UNCHANGED varsRetry
    \/ \E t \in Threads : TTest(t) /\ UNCHANGED varsRetry
    \/ \E t \in Threads : TDel(t) /\ UNCHANGED varsRetry
    \/ \E t \in Threads, fails \in BOOLEAN : TInvoke(t, fails) /\ UNCHANGED varsRetry
    \/ \E t \in Threads : TStore(t) /\ UNCHANGED varsRetry

SpecThreads == InitThreads /\ [][NextThreads]_vars

-----------------------------------------------------------------------------
(* Properties of retry_async, checked under SpecRetry *)

Finished == rpc \in {"returned", "raised"}
Invocations == Len(hist)
AllFailed == \A i \in 1..Len(hist) : hist[i].kind # "ok"
AllExceptions == \A i \in 1..Len(hist) : hist[i].kind = "Exception"

\* C1 as stated: for max_attempts N >= 1, when every attempt failed and
\* the wrapper has raised, func was invoked exactly N times and the wrapper
\* raised the failure of the N-th attempt.
C1_AsStated ==
    (max_attempts >= 1 /\ rpc = "raised" /\ AllFailed)
        => /\ Invocations = max_attempts
           /\ routcome = hist[max_attempts]

\* C1 (amended): for max_attempts N >= 1, when every attempt failed with an
\* instance of Exception, the wrapper raises only after exactly N
\* invocations of func, and what it raises is the failure object of the
\* N-th attempt; while fewer than N attempts have failed it has not raised.
C1_ExhaustedRaisesLast ==
    (max_attempts >= 1 /\ AllExceptions)
        => /\ Invocations <= max_attempts
           /\ (rpc = "raised" =>
                 /\ Invocations = max_attempts
                 /\ routcome = hist[max_attempts])
           /\ (Invocations = max_attempts => rpc = "raised")

C1_Witness ==
    /\ max_attempts = 3 /\ rpc = "raised" /\ Invocations = 3
    /\ AllExceptions
    /\ hist[1] # hist[3] /\ hist[2] # hist[3]
    /\ routcome = hist[3]

NonDecreasing(q) == \A i, j \in 1..Len(q) : i <= j => q[i] <= q[j]

C8_AsStated ==
    /\ (Invocations >= 1 /\ Invocations < max_attempts
          /\ hist[Invocations].kind # "ok")
         => /\ rpc \in {"sleeping", "await_func"}
            /\ last_exception = hist[Invocations]
    /\ (rpc = "raised" /\ max_attempts >= 1) => Invocations = max_attempts

\* C8 (amended): every failure that is an instance of Exception, whichever
\* it is, is captured on a non-final attempt and followed by suspension and
\* retry; a failure that is not an instance of Exception is not captured
\* and reaches the caller from the attempt that raised it.
C8_ExceptionsUniform ==
    /\ (Invocations >= 1 /\ Invocations < max_attempts
          /\ hist[Invocations].kind = "Exception")
         => /\ rpc \in {"sleeping", "await_func"}
            /\ last_exception = hist[Invocations]
    /\ (Invocations >= 1 /\ hist[Invocations].kind = "BaseException")
         => /\ rpc = "raised"
            /\ routcome = hist[Invocations]
            /\ last_exception # hist[Invocations]

C8_Witness ==
    /\ max_attempts = 3 /\ Invocations = 3
    /\ hist[1] = [kind |-> "Exception", v |-> 1]
    /\ hist[2] = [kind |-> "Exception", v |-> 2]
    /\ hist[3].kind = "BaseException"
    /\ rpc = "raised"

-----------------------------------------------------------------------------
(* Properties of cache_result with one caller, checked under SpecCache *)

\* the step is a call of wrapper
IsCall == ncalls' = ncalls + 1

\* the entry stored under the key of arguments a is inside its window
InWindow(a) ==
    /\ CacheKey(a) \in DOMAIN cache
    /\ now - cache[CacheKey(a)][2] < ttl_seconds

\* C4: calls with the same arguments derive the same key; a call made
\* while the entry stored for its arguments is inside the TTL window does
\* not invoke func and returns the stored result (so, right after a call
\* with the same arguments that returned, it returns what that call
\* returned); a call that finds the entry expired invokes func once and
\* stores the new result with the current time.
C4_WindowThenExpiry ==
    [][IsCall =>
         LET a == last'.args
             k == CacheKey(a)
         IN
         /\ \A b \in ArgsUniverse : SameArguments(a, b) => CacheKey(b) = k
         /\ InWindow(a) =>
              /\ opcalls' = opcalls
              /\ ~last'.invoked /\ ~last'.raised
              /\ last'.value = cache[k][1]
              /\ (ncalls > 0 /\ ~last.raised /\ SameArguments(last.args, a))
                    => last'.value = last.value
         /\ (k \in DOMAIN cache /\ ~InWindow(a)) =>
              /\ opcalls' = opcalls + 1
              /\ last'.invoked
              /\ ~last'.raised =>
                   /\ last'.value = FuncResult(a, opcalls')
                   /\ cache'[k] = <<last'.value, now'>>
      ]_vars

C4_Witness ==
    /\ ttl_seconds = 1
    /\ ncalls = 3 /\ opcalls = 2
    /\ last.args = Call6 /\ last.found /\ ~last.hit /\ last.invoked
    /\ ~last.raised /\ last.age >= 1
    /\ DOMAIN cache = {CacheKey(Call5)}
    /\ cache[CacheKey(Call5)][1] = FuncResult(Call6, 2)

\* C5: a call that returns a stored result found it at an age of at most
\* ttl_seconds; a call that finds the entry of its key expired invokes
\* func, and the entry is gone from the mapping when func is invoked.
C5_NoStaleHit ==
    /\ last.hit => (last.found /\ last.age <= ttl_seconds /\ ~last.invoked)
    /\ (last.found /\ last.age > ttl_seconds) => ~last.hit
    /\ (last.found /\ ~last.hit) =>
         /\ last.invoked
         /\ ~last.keyAtInvoke

C5_Witness ==
    /\ last.found /\ ~last.hit /\ last.age > ttl_seconds /\ ttl_seconds >= 1
    /\ last.invoked /\ last.raised
    /\ last.key \notin DOMAIN cache
    /\ opcalls = 2

\* C6 as stated: a call never returns a result that was stored by a call
\* with different arguments.
C6_AsStated ==
    last.hit => SameArguments(last.value.a, last.args)

\* C7: a call in which func raises raises itself and leaves no entry under
\* its key; the next call with the same arguments invokes func again.
C7_FailureNotCached ==
    /\ last.raised => (last.invoked /\ last.key \notin DOMAIN cache)
    /\ last.again => (last.invoked /\ ~last.hit)

C7_Witness ==
    /\ ncalls = 3 /\ opcalls = 3
    /\ last.again /\ last.invoked /\ ~last.raised
    /\ last.args = Call2
    /\ cache[CacheKey(Call2)][1] = FuncResult(Call2, 3)

\* C10: a call that returns a stored result leaves the mapping as it was,
\* timestamps included; the timestamp of an entry is the time at which it
\* was stored; and a call made ttl_seconds or more after that time invokes
\* func.
C10_NoRefreshOnHit ==
    [][/\ (IsCall /\ last'.hit) => cache' = cache
       /\ ~IsCall => cache' = cache
       /\ (IsCall /\ ~last'.hit /\ ~last'.raised) =>
             cache'[last'.key] = <<last'.value, now'>>
       /\ \A a \in ArgsUniverse :
             (IsCall /\ last'.args = a /\ CacheKey(a) \in DOMAIN cache
                /\ now - cache[CacheKey(a)][2] >= ttl_seconds)
               => (last'.invoked /\ opcalls' = opcalls + 1)
      ]_vars

C10_Witness ==
    /\ ttl_seconds = 2 /\ now = 2
    /\ ncalls = 3 /\ opcalls = 2
    /\ last.args = Call1 /\ last.found /\ ~last.hit /\ last.age = 2
    /\ last.invoked /\ ~last.raised
    /\ cache[CacheKey(Call1)] = <<FuncResult(Call1, 2), 2>>
    /\ DOMAIN cache = {CacheKey(Call1)}

-----------------------------------------------------------------------------
(* Properties of cache_result with two threads, checked under SpecThreads *)

\* threads t and u called with the same arguments, both found no live
\* entry, and t invoked func while u was past its lookup and had not
\* stored yet
Raced(t, u) ==
    /\ targs[t] = targs[u]
    /\ tflags[t].missed /\ tflags[u].missed
    /\ tflags[t].racedWith = tflags[u].id /\ tflags[u].id > 0
    /\ tflags[t].n > 0 /\ tflags[u].n > 0

\* C9: nothing keeps two callers with the same arguments from both
\* passing the lookup before either stores; when that has happened and
\* both calls have returned, func has been invoked once by each of them
\* for the one key, both returned their own result, and the mapping holds
\* only the result of the caller that stored second, which overwrote the
\* entry of the first.
C9_DuplicateComputation ==
    \A t \in Threads :
      LET u == Other(t) IN
      (Raced(t, u) /\ tpc[t] = "done" /\ tpc[u] = "done") =>
         /\ opcalls >= 2
         /\ tflags[t].n # tflags[u].n
         /\ tresult[t] = FuncResult(targs[t], tflags[t].n)
         /\ tresult[u] = FuncResult(targs[u], tflags[u].n)
         /\ TKey(t) \in DOMAIN cache
         /\ tflags[t].overwrote # tflags[u].overwrote
         /\ tflags[t].overwrote => cache[TKey(t)][1] = tresult[t]
         /\ tflags[u].overwrote => cache[TKey(t)][1] = tresult[u]

C9_Witness ==
    /\ ncalls = 2 /\ opcalls = 2
    /\ targs[1] = Call3 /\ targs[2] = Call3
    /\ tpc[1] = "done" /\ tpc[2] = "done"
    /\ Raced(1, 2) /\ Raced(2, 1)
    /\ tresult[1] = FuncResult(Call3, 1) /\ tresult[2] = FuncResult(Call3, 2)
    /\ tflags[1].overwrote /\ ~tflags[2].overwrote
    /\ cache[CacheKey(Call3)][1] = FuncResult(Call3, 1)

====
